---------------------------- MODULE Spec2Model ----------------------------
(***************************************************************************)
(* A model of fetchData.js of ski-conditions-data: the retry executor, the *)
(* four source adapters, the aggregation in main and the publisher.        *)
(*                                                                         *)
(* Strings of the program are sequences of one-character strings, so that  *)
(* trim, toLowerCase, split and includes are computed, not assumed.        *)
(* JavaScript runs one callback at a time: a step of the model is the      *)
(* code between two suspension points (await) of one async function, and   *)
(* the synchronous h4 loop of a region handler excludes every other step.  *)
(***************************************************************************)
EXTENDS Integers, Sequences, FiniteSets, TLC

VARIABLES
    retries,      \* the `retries` argument of fetchWithRetry
    call,         \* the fetchWithRetry invocations, by call site
    failedCalls,  \* history: the call sites whose fetchWithRetry threw
    orphans,      \* whether a call nobody awaits any more is still in flight
    pc,           \* position of main ("none": an adapter is called directly)
    data,         \* the object literal `data` of main, as far as evaluated
    webhook,      \* whether process.env.DISCORD_WEBHOOK is set
    alert,        \* notifyError: none, posting, sent, failed, skipped
    wpc,          \* getWeatherData: idle, dns, point, both, returned
    widx,         \* getWeatherData: index of the location of the loop
    weatherData,  \* the `weatherData` object (the return value when returned)
    wpayload,     \* history: the periods each location's forecast answered
    dns,          \* history: outcome of checkDns: unknown, ok, failed
    mpc,          \* getMetroparkConditions: idle, awaitAll, returned
    mh,           \* per park: position of its handler
    mpage,        \* history: the page each park handler received
    mconds,       \* the `conditions` object of getMetroparkConditions
    npc,          \* getNordicSkiRacerConditions: idle, awaitAll, returned
    rh,           \* per region: position of its handler
    page,         \* per region: the h4 headers of the response it received
    hidx,         \* per region: number of headers processed
    conditions,   \* the `conditions` object of getNordicSkiRacerConditions
    kpc,          \* getNubsNobConditions: idle, fetching, returned, threw
    nubs,         \* the value getNubsNobConditions returned
    ppc,          \* updateGitHubData: idle, reading, writing, returned, threw
    store,        \* data/conditions.json in the repository: [exists, sha]
    storeAtRead,  \* history: the store when getContent was answered
    writeReq,     \* the createOrUpdateFileContents request, once issued
    commits,      \* number of commits made by other writers
    pubAttempts   \* history: requests updateGitHubData sent, [read, write]

histVars == <<retries, failedCalls>>
mainVars == <<pc, data, webhook, alert>>
weatherVars == <<wpc, widx, weatherData, wpayload, dns>>
metroVars == <<mpc, mh, mpage, mconds>>
nordicVars == <<npc, rh, page, hidx, conditions>>
nubsVars == <<kpc, nubs>>
pubVars == <<ppc, store, storeAtRead, writeReq, commits, pubAttempts>>
vars == <<retries, call, failedCalls, orphans, pc, data, webhook, alert,
          wpc, widx, weatherData, wpayload, dns, mpc, mh, mpage, mconds,
          npc, rh, page, hidx, conditions, kpc, nubs,
          ppc, store, storeAtRead, writeReq, commits, pubAttempts>>

----------------------------------------------------------------------------
(* Bounds of the model *)

MaxRetries == 10   \* largest `retries` tried on the executor alone
MaxHeaders == 3    \* h4 headers in the region responses, an adapter on its own
RunHeaders == 1    \* h4 headers in the region responses, in a run of main
MaxCommits == 2    \* commits of other writers during one publish

(* Program constants *)

DefaultRetries == 3

MaxForecastPeriods == 20

regions == <<11, 13>>

Regions == {regions[k] : k \in 1..Len(regions)}

\* Object.entries(LOCATIONS), keys and names
LocationKeys == <<"shelbyTownship", "nubsNob", "otsegoResort">>

LocationName(l) ==
    CASE l = "shelbyTownship" -> "Shelby Township"
      [] l = "nubsNob" -> "Nubs Nob"
      [] l = "otsegoResort" -> "Otsego Resort"

Locations == {LocationKeys[k] : k \in 1..Len(LocationKeys)}

\* Array.from(parkMap.entries()): park identifiers and their search terms
ParkIds == <<"HuronMeadowsMetropark", "StonyCreekMetropark">>

Parks == {ParkIds[k] : k \in 1..Len(ParkIds)}

----------------------------------------------------------------------------
(* Strings *)

UpperChars == <<"A","B","C","D","E","F","G","H","I","J","K","L","M",
                "N","O","P","Q","R","S","T","U","V","W","X","Y","Z">>
LowerChars == <<"a","b","c","d","e","f","g","h","i","j","k","l","m",
                "n","o","p","q","r","s","t","u","v","w","x","y","z">>
Digits == <<"0","1","2","3","4","5","6","7","8","9">>

ToLowerChar(c) ==
    IF \E k \in 1..26 : UpperChars[k] = c
    THEN LowerChars[CHOOSE k \in 1..26 : UpperChars[k] = c]
    ELSE c

toLowerCase(s) == [k \in 1..Len(s) |-> ToLowerChar(s[k])]

RECURSIVE TrimStart(_)
TrimStart(s) ==
    IF s # <<>> /\ Head(s) = " " THEN TrimStart(Tail(s)) ELSE s

RECURSIVE TrimEnd(_)
TrimEnd(s) ==
    IF s # <<>> /\ s[Len(s)] = " " THEN TrimEnd(SubSeq(s, 1, Len(s) - 1)) ELSE s

trim(s) == TrimEnd(TrimStart(s))

\* s.indexOf(t), counted from 1; 0 when t does not occur.
IndexOf(s, t) ==
    LET hits == {k \in 1..(Len(s) - Len(t) + 1) : SubSeq(s, k, k + Len(t) - 1) = t}
    IN  IF hits = {} THEN 0 ELSE CHOOSE k \in hits : \A j \in hits : k <= j

includes(s, t) == IndexOf(s, t) > 0

\* s.substring(n)
substring(s, n) == SubSeq(s, n + 1, Len(s))

\* s.split(sep) for a non-empty separator
RECURSIVE split(_, _)
split(s, sep) ==
    LET k == IndexOf(s, sep)
    IN  IF k = 0
        THEN <<s>>
        ELSE <<SubSeq(s, 1, k - 1)>> \o split(SubSeq(s, k + Len(sep), Len(s)), sep)

----------------------------------------------------------------------------
(* fetchWithRetry *)

PointCall(l) == <<"point", l>>
ForecastCall(l) == <<"forecast", l>>
HourlyCall(l) == <<"hourly", l>>
ParkCall(p) == <<"park", p>>
RegionCall(r) == <<"region", ToString(r)>>
NubsCall == <<"nubs", "page">>

CallIds ==
    {PointCall(l) : l \in Locations} \cup {ForecastCall(l) : l \in Locations}
    \cup {HourlyCall(l) : l \in Locations} \cup {ParkCall(p) : p \in Parks}
    \cup {RegionCall(r) : r \in Regions} \cup {NubsCall}

Idle == [st |-> "idle", i |-> 0, log |-> <<>>, ret |-> 0, waits |-> <<>>]

\* `fetchWithRetry(fn)` is entered: i = 0, and the first fn() is in flight.
StartCall == [st |-> "pending", i |-> 0, log |-> <<>>, ret |-> 0, waits |-> <<>>]

\* The `for` header after `i++`: another fn() when i < retries, otherwise the
\* loop ends and the function returns undefined (ret = 0).
LoopTest(r, n) ==
    IF r.i < n THEN r ELSE [r EXCEPT !.st = "ok", !.ret = 0]

\* `return await fn()` when fn() fulfils: the result of this invocation,
\* named by its index in the log, is returned.
OnResolve(r, n) ==
    [r EXCEPT !.st = "ok", !.log = Append(r.log, TRUE), !.ret = Len(r.log) + 1]

\* A last-attempt test that compares with retries instead of retries - 1.
OnRejectNeverThrows(r, n) ==
    LET r1 == [r EXCEPT !.log = Append(r.log, FALSE)]
    IN  IF r.i = n
        THEN [r1 EXCEPT !.st = "err", !.ret = Len(r1.log)]
        ELSE [r1 EXCEPT !.st = "waiting"]

\* A catch that starts the loop over after the last attempt.
OnRejectStartsOver(r, n) ==
    IF r.i = n - 1
    THEN [r EXCEPT !.st = "pending", !.i = 0, !.log = <<>>, !.waits = <<>>]
    ELSE [r EXCEPT !.log = Append(r.log, FALSE), !.st = "waiting"]

\* The catch block when fn() rejects: on the last attempt the error of this
\* invocation is thrown, otherwise the timer of the delay is awaited.
OnReject(r, n) ==
    LET r1 == [r EXCEPT !.log = Append(r.log, FALSE)]
    IN  IF r.i = n - 1
        THEN [r1 EXCEPT !.st = "err", !.ret = Len(r1.log)]
        ELSE [r1 EXCEPT !.st = "waiting"]

\* A delay that grows by one base unit per attempt.
DelayLinear(i) == 1000 * (i + 1)

\* `1000 * Math.pow(2, i)`: the delay awaited in iteration i, in ms
Delay(i) == 1000 * 2^i

\* The timer of the delay fires: the delay is over, i++, the loop test, and
\* the next fn() is in flight.
OnTimeout(r, n) ==
    LoopTest([r EXCEPT !.st = "pending", !.i = r.i + 1,
                       !.waits = Append(r.waits, Delay(r.i))], n)

\* process.exit(1) has not been called
Running == pc # "exited"

\* An h4 loop that yields to the event loop between two headers.
EventLoopYields == TRUE

\* No synchronous loop is on the stack, so a callback may run.
EventLoopFree == \A r \in Regions : rh[r] # "processing"

\* The call settles: a thrown error is recorded in the history.
Settle(c, r) ==
    /\ call' = [call EXCEPT ![c] = r]
    /\ failedCalls' = IF r.st = "err" THEN failedCalls \cup {c} ELSE failedCalls

otherVars == <<mainVars, weatherVars, metroVars, nordicVars, nubsVars, pubVars>>

\* The fn() in flight fulfils
FnResolves(c) ==
    /\ Running /\ EventLoopFree
    /\ call[c].st = "pending"
    /\ Settle(c, OnResolve(call[c], retries))
    /\ UNCHANGED <<retries, orphans, otherVars>>

\* The fn() in flight rejects
FnRejects(c) ==
    /\ Running /\ EventLoopFree
    /\ call[c].st = "pending"
    /\ Settle(c, OnReject(call[c], retries))
    /\ UNCHANGED <<retries, orphans, otherVars>>

\* The timer set after a failed attempt fires
TimerFires(c) ==
    /\ Running /\ EventLoopFree
    /\ call[c].st = "waiting"
    /\ Settle(c, OnTimeout(call[c], retries))
    /\ UNCHANGED <<retries, orphans, otherVars>>

\* The calls whose Promise.all has already rejected run on, but their results
\* reach nobody: the model keeps only whether one of them is still in flight.
\* Here the last of them settles, by a result or by its last error.
OrphanSettles ==
    /\ Running /\ EventLoopFree
    /\ orphans
    /\ orphans' = FALSE
    /\ UNCHANGED <<histVars, call, otherVars>>

----------------------------------------------------------------------------
(* Dates *)

\* `new Date().getFullYear()`: the year of the run
ClockYear == 2026

MonthNames == << <<"j","a","n">>, <<"f","e","b">>, <<"m","a","r">>, <<"a","p","r">>,
                 <<"m","a","y">>, <<"j","u","n">>, <<"j","u","l">>, <<"a","u","g">>,
                 <<"s","e","p">>, <<"o","c","t">>, <<"n","o","v">>, <<"d","e","c">> >>

\* Days of the (common) year before the first of each month
DaysBefore == <<0, 31, 59, 90, 120, 151, 181, 212, 243, 273, 304, 334>>

IsDigit(c) == \E k \in 1..10 : Digits[k] = c

DigitValue(c) == (CHOOSE k \in 1..10 : Digits[k] = c) - 1

IsNumber(w) == Len(w) \in {1, 2} /\ \A k \in 1..Len(w) : IsDigit(w[k])

NumberValue(w) ==
    IF Len(w) = 1 THEN DigitValue(w[1]) ELSE 10 * DigitValue(w[1]) + DigitValue(w[2])

MonthIndex(w) ==
    LET w3 == toLowerCase(SubSeq(w, 1, 3))
    IN  IF Len(w) >= 3 /\ \E m \in 1..12 : MonthNames[m] = w3
        THEN CHOOSE m \in 1..12 : MonthNames[m] = w3
        ELSE 0

\* A Date is null, an Invalid Date (an object, so truthy, whose value is NaN),
\* or a day number.
NullDate == [k |-> "null", t |-> 0]
InvalidDate == [k |-> "invalid", t |-> 0]
ValidDate(t) == [k |-> "date", t |-> t]

\* `new Date(`${datePart}, ${currentYear}`)`, for the texts V8's legacy parser
\* reads as "<month> <day>, <year>": a month word and a day of one or two
\* digits, 1..31, days past the month's end rolling into the next month.
\* Every other text is an Invalid Date.
NewDate(datePart, year) ==
    LET words == split(datePart, <<" ">>)
    IN  IF /\ Len(words) = 2
           /\ MonthIndex(words[1]) > 0
           /\ IsNumber(words[2])
           /\ NumberValue(words[2]) \in 1..31
        THEN ValidDate(365 * year + DaysBefore[MonthIndex(words[1])]
                       + NumberValue(words[2]))
        ELSE InvalidDate

parseDateFromHeader(dateText) ==
    LET parts == split(dateText, <<",", " ">>)
    IN  IF Len(parts) # 2 THEN NullDate ELSE NewDate(parts[2], ClockYear)

\* JavaScript truthiness of a Date-or-null
Truthy(d) == d.k # "null"

\* a > b on Dates: the comparison of their values, false when either is NaN
Later(a, b) == a.k = "date" /\ b.k = "date" /\ a.t > b.t

----------------------------------------------------------------------------
(* getNordicSkiRacerConditions *)

relevantLocations ==
    << <<"N","u","b","s"," ","N","o","b">>,
       <<"H","u","r","o","n"," ","M","e","a","d","o","w","s"," ",
         "M","e","t","r","o","p","a","r","k">>,
       <<"S","h","e","l","b","y"," ","T","o","w","n","s","h","i","p">> >>

\* relevantLocations.find(...) found a name
IsRelevant(locationSection) ==
    \E k \in 1..Len(relevantLocations) :
        includes(toLowerCase(locationSection), toLowerCase(relevantLocations[k]))

Put(m, key, v) == [x \in DOMAIN m \cup {key} |-> IF x = key THEN v ELSE m[x]]

\* A replacement test that takes an unparsed date for the earliest date.
ShouldStoreNullIsOldest(conds, key, currentDate) ==
    \/ key \notin DOMAIN conds
    \/ /\ currentDate.k = "date"
       /\ (conds[key].date.k # "date" \/ currentDate.t > conds[key].date.t)

\* The condition of the `if` that guards the assignment to conditions[key]
ShouldStore(conds, key, currentDate) ==
    \/ key \notin DOMAIN conds
    \/ /\ Truthy(currentDate)
       /\ Truthy(conds[key].date)
       /\ Later(currentDate, conds[key].date)

\* A callback that keeps the first report of a location and never compares.
ProcessHeaderFirstWins(conds, h) ==
    LET parts == split(trim(h.text), <<":">>)
    IN  IF Len(parts) < 2 \/ ~IsRelevant(trim(parts[2])) \/ trim(parts[2]) \in DOMAIN conds
        THEN conds
        ELSE Put(conds, trim(parts[2]),
                 [lastUpdated |-> trim(parts[1]), conditions |-> trim(h.p),
                  date |-> parseDateFromHeader(trim(parts[1]))])

\* The callback of $("h4").each: one header h = [text, p], p the text of the
\* first <p> after it.
ProcessHeader(conds, h) ==
    LET headerText == trim(h.text)
        parts == split(headerText, <<":">>)
    IN  IF Len(parts) < 2
        THEN conds
        ELSE LET dateSection == trim(parts[1])
                 locationSection == trim(parts[2])
                 reportText == trim(h.p)
                 currentDate == parseDateFromHeader(dateSection)
             IN  IF IsRelevant(locationSection)
                    /\ ShouldStore(conds, locationSection, currentDate)
                 THEN Put(conds, locationSection,
                          [lastUpdated |-> dateSection,
                           conditions |-> reportText,
                           date |-> currentDate])
                 ELSE conds

\* A clean-up that forgets to delete the comparison date.
StripDatesForgotten(conds) == conds

\* Object.values(conditions).forEach(c => delete c.date)
StripDates(conds) ==
    [key \in DOMAIN conds |->
        [lastUpdated |-> conds[key].lastUpdated, conditions |-> conds[key].conditions]]

\* The header texts a region page is made of
dMonJan13 == <<"M","o","n",","," ","J","a","n"," ","1","3">>
dTueJan14 == <<"T","u","e",","," ","J","a","n"," ","1","4">>
dJan14 == <<"J","a","n"," ","1","4">>
dTueSoon == <<"T","u","e",","," ","s","o","o","n">>
lNubsXC == <<"N","u","b","s"," ","N","o","b"," ","-"," ","X","C">>
lNubsUpper == <<"N","U","B","S"," ","N","O","B">>
lBoyne == <<"B","o","y","n","e">>

\* The two reports of test 4 of the specification
RunHeaderTexts ==
    { dMonJan13 \o <<":", " ">> \o lNubsXC,
      <<" ">> \o dTueJan14 \o <<" ", ":", " ", " ">> \o lNubsXC \o <<" ">> }

AllHeaderTexts ==
    { dMonJan13 \o <<":", " ">> \o lNubsXC,
      <<" ">> \o dTueJan14 \o <<" ", ":", " ", " ">> \o lNubsXC \o <<" ">>,
      dJan14 \o <<":", " ">> \o lNubsXC,
      dTueSoon \o <<":", " ">> \o lNubsXC,
      dTueJan14 \o <<":", " ">> \o lNubsUpper,
      dTueJan14 \o <<":", " ">> \o lBoyne,
      <<"T","r","a","i","l","s">> }

HeaderTexts == IF pc = "none" THEN AllHeaderTexts ELSE RunHeaderTexts

\* The report paragraph under the k-th header of region r's page names both.
ReportText(r, k) == <<(IF r = 11 THEN "a" ELSE "b"), Digits[k + 1], " ">>

\* The pages region r may answer with: at most n headers
PagesOf(r, n) ==
    UNION { { [k \in 1..len |-> [text |-> ts[k], p |-> ReportText(r, k)]] :
                ts \in [1..len -> HeaderTexts] } : len \in 0..n }

\* The headers the responses of one adapter call hold in all
HeaderBudget == IF pc = "none" THEN MaxHeaders ELSE RunHeaders

HeadersSoFar == Len(page[regions[1]]) + Len(page[regions[2]])

getNordicSkiRacerConditions ==
    /\ Running /\ EventLoopFree
    /\ pc \in {"nordic", "none"}
    /\ npc = "idle"
    /\ npc' = "awaitAll"
    /\ conditions' = <<>>
    /\ rh' = [r \in Regions |-> "fetching"]
    /\ call' = [c \in CallIds |->
                  IF \E r \in Regions : c = RegionCall(r) THEN StartCall ELSE call[c]]
    /\ UNCHANGED <<histVars, orphans, mainVars, weatherVars, metroVars, nubsVars, pubVars, page, hidx>>

\* `await fetchWithRetry(...)` returns: the response is loaded and the h4 loop
\* starts (a returned undefined has no .data: see RegionCatches).
RegionResumes(r) ==
    /\ Running /\ EventLoopFree
    /\ rh[r] = "fetching"
    /\ call[RegionCall(r)].st = "ok" /\ call[RegionCall(r)].ret > 0
    /\ \E q \in PagesOf(r, HeaderBudget - HeadersSoFar) :
          /\ page' = [page EXCEPT ![r] = q]
          /\ rh' = [rh EXCEPT ![r] = IF q = <<>> THEN "done" ELSE "processing"]
    /\ hidx' = [hidx EXCEPT ![r] = 0]
    /\ call' = [call EXCEPT ![RegionCall(r)] = Idle]
    /\ UNCHANGED <<histVars, orphans, mainVars, weatherVars, metroVars, nubsVars, pubVars, npc, conditions>>

\* One iteration of $("h4").each
RegionHeader(r) ==
    /\ Running
    /\ rh[r] = "processing"
    /\ conditions' = ProcessHeader(conditions, page[r][hidx[r] + 1])
    /\ hidx' = [hidx EXCEPT ![r] = hidx[r] + 1]
    /\ rh' = [rh EXCEPT ![r] = IF hidx[r] + 1 = Len(page[r]) THEN "done" ELSE "processing"]
    /\ UNCHANGED <<histVars, call, orphans, mainVars, weatherVars, metroVars, nubsVars, pubVars, npc, page>>

\* A catch that records the failure in the map, as the park handlers do.
OnRegionErrorRecorded(conds, r) ==
    Put(conds, <<"e", "r", "r", "o", "r">>,
        [lastUpdated |-> <<>>, conditions |-> <<>>, date |-> NullDate])

\* What the catch of a region handler does to `conditions`: the error is
\* logged, nothing else.
OnRegionError(conds, r) == conds

RegionCatches(r) ==
    /\ Running /\ EventLoopFree
    /\ rh[r] = "fetching"
    /\ \/ call[RegionCall(r)].st = "err"
       \/ call[RegionCall(r)].st = "ok" /\ call[RegionCall(r)].ret = 0
    /\ rh' = [rh EXCEPT ![r] = "failed"]
    /\ conditions' = OnRegionError(conditions, r)
    /\ call' = [call EXCEPT ![RegionCall(r)] = Idle]
    /\ UNCHANGED <<histVars, orphans, mainVars, weatherVars, metroVars, nubsVars, pubVars, npc, page, hidx>>

\* Promise.all fulfils; the dates are deleted and `conditions` is returned.
NordicReturns ==
    /\ Running /\ EventLoopFree
    /\ npc = "awaitAll"
    /\ \A r \in Regions : rh[r] \in {"done", "failed"}
    /\ conditions' = StripDates(conditions)
    /\ npc' = "returned"
    /\ UNCHANGED <<histVars, call, orphans, mainVars, weatherVars, metroVars, nubsVars, pubVars, rh, page, hidx>>

----------------------------------------------------------------------------
(* getWeatherData *)

\* A number or null
Null == [null |-> TRUE, v |-> 0]
Num(v) == [null |-> FALSE, v |-> v]

\* x || 0
OrZero(x) == IF x.null THEN Num(0) ELSE x

snowString == <<"N","e","w"," ","s","n","o","w"," ","a","c","c","u","m","u","l","a","t","i","o","n">>

\* The first sentence of the detailed forecast that mentions snow accumulation
SnowAccumulation(detailedForecast) ==
    IF includes(detailedForecast, snowString)
    THEN LET sentences == split(detailedForecast, <<".">>)
             hits == {k \in 1..Len(sentences) : includes(sentences[k], snowString)}
         IN  IF hits = {} THEN <<>>
             ELSE trim(sentences[CHOOSE k \in hits : \A j \in hits : k <= j])
    ELSE <<>>

\* periods.slice(0, 20).map(...)
ProcessedForecasts(periods) ==
    [k \in 1..(IF Len(periods) < MaxForecastPeriods
               THEN Len(periods) ELSE MaxForecastPeriods) |->
        [name |-> periods[k].name,
         timestamp |-> periods[k].startTime,
         temp |-> periods[k].temperature,
         snowfall |-> OrZero(periods[k].probabilityOfPrecipitation),
         snowAmount |-> SnowAccumulation(periods[k].detailedForecast),
         shortForecast |-> periods[k].shortForecast,
         detailedForecast |-> periods[k].detailedForecast]]

\* The entry of a location whose forecast was fetched
RealEntry(l, periods) ==
    [name |-> LocationName(l), forecast |-> ProcessedForecasts(periods)]

\* The placeholder entry of a location whose try block threw
Placeholder(l) ==
    [name |-> LocationName(l),
     forecast |-> << [name |-> "Unavailable",
                      timestamp |-> 0,
                      temp |-> Null,
                      snowfall |-> Null,
                      snowAmount |-> <<"0",".","0">>,
                      shortForecast |-> "Weather data temporarily unavailable"] >>]

\* A catch that logs the error and goes on to the next location.
OnLocationErrorSkips(wd, l) == wd

\* The catch of the location loop
OnLocationError(wd, l) == Put(wd, l, Placeholder(l))

\* The periods a forecast response may hold
SnowyNight ==
    << [name |-> "Tonight", startTime |-> 1, temperature |-> Num(20),
        probabilityOfPrecipitation |-> Null,
        shortForecast |-> "Snow",
        detailedForecast |-> <<"C","o","l","d","."," ","N","e","w"," ","s","n","o","w"," ","a","c","c","u","m","u","l","a","t","i","o","n"," ","o","f"," ","2"," ","i","n","c","h","e","s","."," ","W","i","n","d","y",".">>] >>

SunnyDay ==
    << [name |-> "Today", startTime |-> 1, temperature |-> Num(30),
        probabilityOfPrecipitation |-> Num(30),
        shortForecast |-> "Sunny",
        detailedForecast |-> <<"S","u","n","n","y",".">>],
       [name |-> "Tonight", startTime |-> 2, temperature |-> Num(0),
        probabilityOfPrecipitation |-> Num(0),
        shortForecast |-> "Clear",
        detailedForecast |-> <<"C","l","e","a","r","."," ","N","o"," ","N","e","w"," ","s","n","o","w",".">>] >>

ForecastPayloads == IF pc = "none" THEN {SnowyNight, SunnyDay} ELSE {SnowyNight}

CurrentLocation == LocationKeys[widx]

CallsOf(l) == {PointCall(l), ForecastCall(l), HourlyCall(l)}

\* The loop goes on to the location after the widx-th, or the function returns:
\* the calls of the location just handled are no longer awaited (one still in
\* flight runs on, see OrphanSettles), and the next point lookup starts.
CallsAfterLocation ==
    [c \in CallIds |->
        IF c \in CallsOf(CurrentLocation)
        THEN Idle
        ELSE IF widx < Len(LocationKeys) /\ c = PointCall(LocationKeys[widx + 1])
             THEN StartCall
             ELSE call[c]]

Abandoned == {c \in CallsOf(CurrentLocation) : call[c].st \in {"pending", "waiting"}}

NextLocation ==
    /\ call' = CallsAfterLocation
    /\ orphans' = (orphans \/ Abandoned # {})
    /\ widx' = IF widx < Len(LocationKeys) THEN widx + 1 ELSE widx
    /\ wpc' = IF widx < Len(LocationKeys) THEN "point" ELSE "returned"

\* A pre-flight whose answer is logged and not acted upon.
AfterDnsIgnored(resolved) ==
    [wpc |-> "point",
     call |-> [call EXCEPT ![PointCall(LocationKeys[1])] = StartCall]]

\* `if (!(await checkDns(...))) return {}`: after a failed lookup the function
\* has returned and no fetch is started, otherwise the loop starts with the
\* point lookup of the first location
AfterDns(resolved) ==
    IF resolved
    THEN [wpc |-> "point",
          call |-> [call EXCEPT ![PointCall(LocationKeys[1])] = StartCall]]
    ELSE [wpc |-> "returned", call |-> call]

getWeatherData ==
    /\ Running /\ EventLoopFree
    /\ pc \in {"weather", "none"}
    /\ wpc = "idle"
    /\ wpc' = "dns"
    /\ UNCHANGED <<histVars, call, orphans, mainVars, widx, weatherData, wpayload, dns,
                   metroVars, nordicVars, nubsVars, pubVars>>

\* checkDns returns true: the loop starts with the first point lookup
DnsResolves ==
    /\ Running /\ EventLoopFree
    /\ wpc = "dns"
    /\ dns' = "ok"
    /\ weatherData' = <<>>
    /\ widx' = 1
    /\ call' = AfterDns(TRUE).call
    /\ wpc' = AfterDns(TRUE).wpc
    /\ UNCHANGED <<histVars, orphans, mainVars, wpayload,
                   metroVars, nordicVars, nubsVars, pubVars>>

\* checkDns catches the lookup error and returns false: `return {}`
DnsFails ==
    /\ Running /\ EventLoopFree
    /\ wpc = "dns"
    /\ dns' = "failed"
    /\ weatherData' = <<>>
    /\ call' = AfterDns(FALSE).call
    /\ wpc' = AfterDns(FALSE).wpc
    /\ UNCHANGED <<histVars, orphans, mainVars, widx, wpayload,
                   metroVars, nordicVars, nubsVars, pubVars>>

\* The point lookup returned: both forecast fetches start
PointReturns ==
    /\ Running /\ EventLoopFree
    /\ wpc = "point"
    /\ call[PointCall(CurrentLocation)].st = "ok"
    /\ call[PointCall(CurrentLocation)].ret > 0
    /\ call' = [call EXCEPT ![PointCall(CurrentLocation)] = Idle,
                            ![ForecastCall(CurrentLocation)] = StartCall,
                            ![HourlyCall(CurrentLocation)] = StartCall]
    /\ wpc' = "both"
    /\ UNCHANGED <<histVars, orphans, mainVars, widx, weatherData, wpayload, dns,
                   metroVars, nordicVars, nubsVars, pubVars>>

\* The general forecast was answered with a response
ForecastAnswered ==
    /\ wpc = "both"
    /\ call[ForecastCall(CurrentLocation)].st = "ok"
    /\ call[ForecastCall(CurrentLocation)].ret > 0

\* A wait for the general forecast alone, the hourly one settled either way.
ForecastsFulfilWithoutHourly ==
    /\ ForecastAnswered
    /\ call[HourlyCall(CurrentLocation)].st \in {"ok", "err"}

\* Promise.all([forecast, hourly]) fulfils: both calls returned
ForecastsFulfil ==
    /\ ForecastAnswered
    /\ call[HourlyCall(CurrentLocation)].st = "ok"

\* Promise.all fulfils: the periods of the general forecast are processed
ForecastsReturn ==
    /\ Running /\ EventLoopFree
    /\ wpc = "both"
    /\ ForecastsFulfil
    /\ \E periods \in ForecastPayloads :
          /\ weatherData' = Put(weatherData, CurrentLocation,
                                RealEntry(CurrentLocation, periods))
          /\ wpayload' = [wpayload EXCEPT ![CurrentLocation] = periods]
    /\ NextLocation
    /\ UNCHANGED <<histVars, mainVars, dns, metroVars, nordicVars, nubsVars, pubVars>>

\* The try block of the current location throws
LocationThrows ==
    \/ /\ wpc = "point"
       /\ \/ call[PointCall(CurrentLocation)].st = "err"
          \/ /\ call[PointCall(CurrentLocation)].st = "ok"
             /\ call[PointCall(CurrentLocation)].ret = 0
    \/ /\ wpc = "both"
       /\ \/ call[ForecastCall(CurrentLocation)].st = "err"
          \/ call[HourlyCall(CurrentLocation)].st = "err"
          \/ /\ call[ForecastCall(CurrentLocation)].st = "ok"
             /\ call[ForecastCall(CurrentLocation)].ret = 0
             /\ call[HourlyCall(CurrentLocation)].st = "ok"

LocationCatches ==
    /\ Running /\ EventLoopFree
    /\ LocationThrows
    /\ weatherData' = OnLocationError(weatherData, CurrentLocation)
    /\ \E periods \in (IF ForecastAnswered THEN ForecastPayloads ELSE {<<>>}) :
          wpayload' = [wpayload EXCEPT ![CurrentLocation] = periods]
    /\ NextLocation
    /\ UNCHANGED <<histVars, mainVars, dns,
                   metroVars, nordicVars, nubsVars, pubVars>>

----------------------------------------------------------------------------
(* getMetroparkConditions: one fetch and one handler per park *)

searchTerms(p) ==
    CASE p = "HuronMeadowsMetropark" ->
            << <<"B","u","c","k","s"," ","R","u","n">>, <<"N","a","t","u","r","a","l"," ","S","n","o","w"," ","C","l","a","s","s","i","c"," ","a","n","d"," ","S","k","a","t","e"," ","S","k","i"," ","T","r","a","i","l","s">> >>
      [] p = "StonyCreekMetropark" ->
            << <<"S","t","o","n","y"," ","C","r","e","e","k"," ","C","r","o","s","s"," ","C","o","u","n","t","r","y">> >>

\* searchTerms.some((term) => strongText.includes(term))
MatchesTerm(p, strongText) ==
    \E k \in 1..Len(searchTerms(p)) : includes(strongText, searchTerms(p)[k])

\* The section of one <strong> element e = [strong, inP, pText]: pText is the
\* text of its parent when that is a <p>, and parent("p") is empty otherwise.
SectionOf(e) ==
    LET strongText == trim(e.strong)
        fullText == IF e.inP THEN trim(e.pText) ELSE <<>>
    IN  [header |-> strongText,
         content |-> trim(substring(fullText, Len(strongText)))]

RECURSIVE Sections(_, _)
Sections(p, strongs) ==
    IF strongs = <<>> THEN <<>>
    ELSE (IF MatchesTerm(p, trim(Head(strongs).strong))
          THEN <<SectionOf(Head(strongs))>> ELSE <<>>)
         \o Sections(p, Tail(strongs))

\* conditions[parkId] after a response pg = [panel, title, strongs]
ExtractPark(p, pg) ==
    IF pg.panel
    THEN [sections |-> Sections(p, pg.strongs), title |-> trim(pg.title)]
    ELSE [sections |-> <<>>]

\* The failure of one park replaces the map by an error object, as the
\* single-fetch version of the adapter did.
OnParkErrorReplacesMap(conds, p, k) ==
    [x \in {"error"} |-> [sections |-> <<>>,
                          error |-> [message |-> "Failed to fetch conditions: ", of |-> k]]]

\* The catch of a park handler; k names the error (the failed invocation)
OnParkError(conds, p, k) ==
    Put(conds, p, [sections |-> <<>>,
                   error |-> [message |-> "Failed to fetch conditions: ", of |-> k]])

HuronPage ==
    [panel |-> TRUE,
     title |-> <<" ","H","u","r","o","n"," ","M","e","a","d","o","w","s"," ","M","e","t","r","o","p","a","r","k"," ">>,
     strongs |-> << [strong |-> <<"B","u","c","k","s"," ","R","u","n",":"," ">>, inP |-> TRUE,
                     pText |-> <<"B","u","c","k","s"," ","R","u","n",":"," ","O","p","e","n",","," ","g","r","o","o","m","e","d"," ">>],
                    [strong |-> <<"G","o","l","f"," ","C","o","u","r","s","e">>, inP |-> TRUE,
                     pText |-> <<"G","o","l","f"," ","C","o","u","r","s","e"," ","c","l","o","s","e","d">>] >>]

StonyPage ==
    [panel |-> TRUE,
     title |-> <<"S","t","o","n","y"," ","C","r","e","e","k"," ","M","e","t","r","o","p","a","r","k">>,
     strongs |-> << [strong |-> <<"S","t","o","n","y"," ","C","r","e","e","k"," ","C","r","o","s","s"," ","C","o","u","n","t","r","y"," ","S","k","i">>, inP |-> FALSE,
                     pText |-> <<>>] >>]

NoPanelPage == [panel |-> FALSE, title |-> <<>>, strongs |-> <<>>]

ParkPages(p) ==
    {IF p = "HuronMeadowsMetropark" THEN HuronPage ELSE StonyPage}
    \cup (IF pc = "none" THEN {NoPanelPage} ELSE {})

getMetroparkConditions ==
    /\ Running /\ EventLoopFree
    /\ pc \in {"metro", "none"}
    /\ mpc = "idle"
    /\ mpc' = "awaitAll"
    /\ mconds' = <<>>
    /\ mh' = [p \in Parks |-> "fetching"]
    /\ call' = [c \in CallIds |->
                  IF \E p \in Parks : c = ParkCall(p) THEN StartCall ELSE call[c]]
    /\ UNCHANGED <<histVars, orphans, mainVars, weatherVars, mpage,
                   nordicVars, nubsVars, pubVars>>

\* `await fetchWithRetry(...)` returns in the handler of park p
ParkResumes(p) ==
    /\ Running /\ EventLoopFree
    /\ mh[p] = "fetching"
    /\ call[ParkCall(p)].st = "ok" /\ call[ParkCall(p)].ret > 0
    /\ \E pg \in ParkPages(p) :
          /\ mpage' = [mpage EXCEPT ![p] = pg]
          /\ mconds' = Put(mconds, p, ExtractPark(p, pg))
    /\ mh' = [mh EXCEPT ![p] = "done"]
    /\ call' = [call EXCEPT ![ParkCall(p)] = Idle]
    /\ UNCHANGED <<histVars, orphans, mainVars, weatherVars, mpc,
                   nordicVars, nubsVars, pubVars>>

ParkCatches(p) ==
    /\ Running /\ EventLoopFree
    /\ mh[p] = "fetching"
    /\ \/ call[ParkCall(p)].st = "err"
       \/ call[ParkCall(p)].st = "ok" /\ call[ParkCall(p)].ret = 0
    /\ mconds' = OnParkError(mconds, p, call[ParkCall(p)].ret)
    /\ mh' = [mh EXCEPT ![p] = "failed"]
    /\ call' = [call EXCEPT ![ParkCall(p)] = Idle]
    /\ UNCHANGED <<histVars, orphans, mainVars, weatherVars, mpc, mpage,
                   nordicVars, nubsVars, pubVars>>

\* Promise.all fulfils and `conditions` is returned
MetroReturns ==
    /\ Running /\ EventLoopFree
    /\ mpc = "awaitAll"
    /\ \A p \in Parks : mh[p] \in {"done", "failed"}
    /\ mpc' = "returned"
    /\ UNCHANGED <<histVars, call, orphans, mainVars, weatherVars, mh, mpage, mconds,
                   nordicVars, nubsVars, pubVars>>

----------------------------------------------------------------------------
(* getNubsNobConditions *)

\* All .conditions-cell texts of the rows whose first cell is the label
RECURSIVE CellsOfLabel(_, _)
CellsOfLabel(rows, label) ==
    IF rows = <<>> THEN <<>>
    ELSE (IF Head(rows) # <<>> /\ trim(Head(rows)[1]) = label THEN Head(rows) ELSE <<>>)
         \o CellsOfLabel(Tail(rows), label)

\* $(cells[k]).text().trim(), counting cells from 0; empty when there is none
CellText(cells, k) == IF k + 1 <= Len(cells) THEN trim(cells[k + 1]) ELSE <<>>

getValueByLabel(rows, label) == CellText(CellsOfLabel(rows, label), 1)

getSnowData(rows) ==
    LET cells == CellsOfLabel(rows, <<"N","e","w"," ","S","n","o","w"," ","s","i","n","c","e"," ","y","e","s","t","e","r","d","a","y",":">>)
    IN  [daily |-> CellText(cells, 1),
         threeDays |-> CellText(cells, 2),
         sevenDays |-> CellText(cells, 3),
         ytd |-> CellText(cells, 4)]

NubsConditions(rows) ==
    [date |-> getValueByLabel(rows, <<"D","a","t","e",":">>),
     liftsOpen |-> getValueByLabel(rows, <<"L","i","f","t","s"," ","O","p","e","n",":">>),
     xcTrails |-> getValueByLabel(rows, <<"X","C"," ","T","r","a","i","l"," ","S","y","s","t","e","m",":">>),
     nightSkiing |-> getValueByLabel(rows, <<"N","i","g","h","t"," ","S","k","i","i","n","g",":">>),
     comments |-> getValueByLabel(rows, <<"C","o","m","m","e","n","t","s",":">>),
     snowData |-> getSnowData(rows)]

NubsRows ==
    << << <<" ","D","a","t","e",":"," ">>, <<" ","J","a","n"," ","1","4"," ">> >>,
       << <<"L","i","f","t","s"," ","O","p","e","n",":">>, <<"5">> >>,
       << <<"N","e","w"," ","S","n","o","w"," ","s","i","n","c","e"," ","y","e","s","t","e","r","d","a","y",":">>, <<"1">>, <<"2">>, <<"3">> >> >>

NubsPages == {NubsRows} \cup (IF pc = "none" THEN {<<>>} ELSE {})

\* A fetch failure answered with empty conditions instead of an exception.
NubsOnErrorDegrades == "returned"

\* getNubsNobConditions has no try: the rejection of fetchWithRetry is its own
NubsOnError == "threw"

getNubsNobConditions ==
    /\ Running /\ EventLoopFree
    /\ pc \in {"nubs", "none"}
    /\ kpc = "idle"
    /\ kpc' = "fetching"
    /\ call' = [call EXCEPT ![NubsCall] = StartCall]
    /\ UNCHANGED <<histVars, orphans, mainVars, weatherVars, metroVars, nordicVars,
                   nubs, pubVars>>

NubsReturns ==
    /\ Running /\ EventLoopFree
    /\ kpc = "fetching"
    /\ call[NubsCall].st = "ok" /\ call[NubsCall].ret > 0
    /\ \E rows \in NubsPages : nubs' = NubsConditions(rows)
    /\ kpc' = "returned"
    /\ call' = [call EXCEPT ![NubsCall] = Idle]
    /\ UNCHANGED <<histVars, orphans, mainVars, weatherVars, metroVars, nordicVars,
                   pubVars>>

NubsThrows ==
    /\ Running /\ EventLoopFree
    /\ kpc = "fetching"
    /\ \/ call[NubsCall].st = "err"
       \/ call[NubsCall].st = "ok" /\ call[NubsCall].ret = 0
    /\ kpc' = NubsOnError
    /\ call' = [call EXCEPT ![NubsCall] = Idle]
    /\ UNCHANGED <<histVars, orphans, mainVars, weatherVars, metroVars, nordicVars,
                   nubs, pubVars>>

----------------------------------------------------------------------------
(* main: the aggregation *)

DocumentKeys ==
    {"timestamp", "weather", "metroparkConditions", "nordicConditions", "nubsNob"}

\* A literal that leaves out a section whose adapter returned nothing.
AddSectionSkipsEmpty(d, key, v) == IF v = <<>> THEN d ELSE Put(d, key, v)

\* `key: await adapter()` in the object literal
AddSection(d, key, v) == Put(d, key, v)

\* The fetch of the resort page is treated like the isolated failures.
MayPublishAnyway == kpc \in {"returned", "threw"}

\* updateGitHubData(data) is reached when the last await of the literal returned
MayPublish == kpc = "returned"

adapterVars == <<weatherVars, metroVars, nordicVars, nubsVars>>

main ==
    /\ pc = "start"
    /\ data' = Put(<<>>, "timestamp", "now")
    /\ pc' = "weather"
    /\ UNCHANGED <<histVars, call, orphans, webhook, alert, adapterVars, pubVars>>

\* An adapter returned to main: its value goes into the literal, and its
\* locals (with the history kept about them) are gone.
WeatherReturned ==
    /\ Running /\ EventLoopFree
    /\ pc = "weather" /\ wpc = "returned"
    /\ data' = AddSection(data, "weather", weatherData)
    /\ pc' = "metro"
    /\ weatherData' = <<>>
    /\ wpayload' = [l \in Locations |-> <<>>]
    /\ widx' = 1
    /\ failedCalls' = failedCalls \ UNION {CallsOf(l) : l \in Locations}
    /\ UNCHANGED <<retries, call, orphans, webhook, alert, wpc, dns,
                   metroVars, nordicVars, nubsVars, pubVars>>

MetroReturned ==
    /\ Running /\ EventLoopFree
    /\ pc = "metro" /\ mpc = "returned"
    /\ data' = AddSection(data, "metroparkConditions", mconds)
    /\ pc' = "nordic"
    /\ mconds' = <<>>
    /\ mpage' = [p \in Parks |-> <<>>]
    /\ mh' = [p \in Parks |-> "idle"]
    /\ UNCHANGED <<histVars, call, orphans, webhook, alert, mpc,
                   weatherVars, nordicVars, nubsVars, pubVars>>

NordicReturned ==
    /\ Running /\ EventLoopFree
    /\ pc = "nordic" /\ npc = "returned"
    /\ data' = AddSection(data, "nordicConditions", conditions)
    /\ pc' = "nubs"
    /\ conditions' = <<>>
    /\ page' = [r \in Regions |-> <<>>]
    /\ hidx' = [r \in Regions |-> 0]
    /\ rh' = [r \in Regions |-> "idle"]
    /\ UNCHANGED <<histVars, call, orphans, webhook, alert, npc,
                   weatherVars, metroVars, nubsVars, pubVars>>

\* The literal is complete: updateGitHubData(data) sends getContent
NubsReturned ==
    /\ Running /\ EventLoopFree
    /\ pc = "nubs" /\ MayPublish
    /\ data' = AddSection(data, "nubsNob", nubs)
    /\ pc' = "publish"
    /\ ppc' = "reading"
    /\ nubs' = <<>>
    /\ pubAttempts' = [pubAttempts EXCEPT !.read = @ + 1]
    /\ UNCHANGED <<histVars, call, orphans, webhook, alert, kpc,
                   weatherVars, metroVars, nordicVars,
                   store, storeAtRead, writeReq, commits>>

\* updateGitHubData returned: "Data updated successfully"
MainReturns ==
    /\ Running /\ EventLoopFree
    /\ pc = "publish" /\ ppc = "returned"
    /\ pc' = "done"
    /\ UNCHANGED <<histVars, call, orphans, data, webhook, alert, adapterVars, pubVars>>

\* The catch of main: notifyError reads process.env.DISCORD_WEBHOOK and posts
\* when it is set
MainCatches ==
    /\ Running /\ EventLoopFree
    /\ \/ pc = "nubs" /\ kpc = "threw"
       \/ pc = "publish" /\ ppc = "threw"
    /\ \E configured \in BOOLEAN :
          /\ webhook' = configured
          /\ pc' = IF configured THEN "notifying" ELSE "notified"
          /\ alert' = IF configured THEN "posting" ELSE "skipped"
    /\ UNCHANGED <<histVars, call, orphans, data, adapterVars, pubVars>>

\* axios.post fulfils, or rejects and notifyError's catch logs it
AlertSettles ==
    /\ Running /\ EventLoopFree
    /\ pc = "notifying"
    /\ \E ok \in BOOLEAN : alert' = IF ok THEN "sent" ELSE "failed"
    /\ pc' = "notified"
    /\ UNCHANGED <<histVars, call, orphans, data, webhook, adapterVars, pubVars>>

\* An exit that does not wait for the alert to settle.
MayExitEarly == pc \in {"notifying", "notified"}

\* process.exit(1) is reached when `await notifyError(error)` returned
MayExit == pc = "notified"

\* process.exit(1)
Exits ==
    /\ EventLoopFree
    /\ MayExit
    /\ pc' = "exited"
    /\ UNCHANGED <<histVars, call, orphans, data, webhook, alert, adapterVars, pubVars>>

\* The status the process ends with: 1 by process.exit(1), 0 when main
\* returned and nothing is left to run, -1 while it runs
ExitStatus ==
    IF pc = "exited" THEN 1
    ELSE IF pc = "done" /\ ~orphans THEN 0
    ELSE -1

----------------------------------------------------------------------------
(* updateGitHubData and the file data/conditions.json *)

NoRequest == [issued |-> FALSE, marked |-> FALSE, sha |-> 0, content |-> <<>>]

\* createOrUpdateFileContents({..., content, sha}) with the sha that was read
RequestWith(sha, content) ==
    [issued |-> TRUE, marked |-> TRUE, sha |-> sha, content |-> content]

\* createOrUpdateFileContents({..., content, sha: undefined})
RequestWithout(content) ==
    [issued |-> TRUE, marked |-> FALSE, sha |-> 0, content |-> content]

\* data/conditions.json in the repository: absent, or present with a blob sha
NoFile == [exists |-> FALSE, sha |-> 0]

FirstFile == [exists |-> TRUE, sha |-> 0]

\* The store takes a write that creates an absent file or names the current sha
StoreAccepts(req) ==
    \/ ~store.exists /\ ~req.marked
    \/ store.exists /\ req.marked /\ req.sha = store.sha

\* Another writer commits the file while the publisher is between its requests
OtherWriterCommits ==
    /\ Running /\ EventLoopFree
    /\ ppc \in {"reading", "writing"}
    /\ commits < MaxCommits
    /\ commits' = commits + 1
    /\ store' = [exists |-> TRUE, sha |-> store.sha + 1]
    /\ UNCHANGED <<histVars, call, orphans, mainVars, adapterVars, ppc, storeAtRead, writeReq, pubAttempts>>

\* getContent answers with the file's sha; the write is sent with it
ReadReturns ==
    /\ Running /\ EventLoopFree
    /\ ppc = "reading"
    /\ store.exists
    /\ storeAtRead' = store
    /\ writeReq' = RequestWith(store.sha, data)
    /\ ppc' = "writing"
    /\ pubAttempts' = [pubAttempts EXCEPT !.write = @ + 1]
    /\ UNCHANGED <<histVars, call, orphans, mainVars, adapterVars, store, commits>>

\* getContent rejects, with 404 or with any other error: the catch logs
\* "File does not exist yet" and the write is sent with sha undefined
ReadThrows ==
    /\ Running /\ EventLoopFree
    /\ ppc = "reading"
    /\ storeAtRead' = store
    /\ writeReq' = RequestWithout(data)
    /\ ppc' = "writing"
    /\ pubAttempts' = [pubAttempts EXCEPT !.write = @ + 1]
    /\ UNCHANGED <<histVars, call, orphans, mainVars, adapterVars, store, commits>>

WriteAccepted ==
    /\ Running /\ EventLoopFree
    /\ ppc = "writing"
    /\ StoreAccepts(writeReq)
    /\ store' = [exists |-> TRUE, sha |-> store.sha + 1]
    /\ ppc' = "returned"
    /\ UNCHANGED <<histVars, call, orphans, mainVars, adapterVars, storeAtRead, writeReq, commits, pubAttempts>>

\* The store refuses the write, or the request fails: updateGitHubData throws
WriteRejected ==
    /\ Running /\ EventLoopFree
    /\ ppc = "writing"
    /\ ppc' = "threw"
    /\ UNCHANGED <<histVars, call, orphans, mainVars, adapterVars, store, storeAtRead, writeReq, commits, pubAttempts>>

----------------------------------------------------------------------------
(* Initial states *)

InitCommon ==
    /\ call = [c \in CallIds |-> Idle]
    /\ failedCalls = {}
    /\ orphans = FALSE
    /\ data = <<>>
    /\ alert = "none"
    /\ wpc = "idle"
    /\ widx = 1
    /\ weatherData = <<>>
    /\ wpayload = [l \in Locations |-> <<>>]
    /\ dns = "unknown"
    /\ mpc = "idle"
    /\ mh = [p \in Parks |-> "idle"]
    /\ mpage = [p \in Parks |-> <<>>]
    /\ mconds = <<>>
    /\ npc = "idle"
    /\ rh = [r \in Regions |-> "idle"]
    /\ page = [r \in Regions |-> <<>>]
    /\ hidx = [r \in Regions |-> 0]
    /\ conditions = <<>>
    /\ kpc = "idle"
    /\ nubs = <<>>
    /\ ppc = "idle"
    /\ storeAtRead = NoFile
    /\ writeReq = NoRequest
    /\ commits = 0
    /\ pubAttempts = [read |-> 0, write |-> 0]

(* The retry executor alone, for every retries in 1..MaxRetries: one call is
   in flight *)

InitRetry ==
    /\ retries \in 1..MaxRetries
    /\ pc = "none"
    /\ webhook = FALSE
    /\ store = NoFile
    /\ InitCommon

StartsCall ==
    /\ \A c \in CallIds : call[c] = Idle
    /\ failedCalls = {}
    /\ call' = [call EXCEPT ![NubsCall] = StartCall]
    /\ UNCHANGED <<histVars, orphans, otherVars>>

NextRetry ==
    \/ StartsCall
    \/ FnResolves(NubsCall)
    \/ FnRejects(NubsCall)
    \/ TimerFires(NubsCall)

SpecRetry == InitRetry /\ [][NextRetry]_vars

(* getNordicSkiRacerConditions called on its own *)

InitNordic ==
    /\ retries = DefaultRetries
    /\ pc = "none"
    /\ webhook = FALSE
    /\ store = NoFile
    /\ InitCommon

NextNordic ==
    \/ getNordicSkiRacerConditions
    \/ \E r \in Regions :
          \/ FnResolves(RegionCall(r))
          \/ FnRejects(RegionCall(r))
          \/ TimerFires(RegionCall(r))
          \/ RegionResumes(r)
          \/ RegionHeader(r)
          \/ RegionCatches(r)
    \/ NordicReturns

SpecNordic == InitNordic /\ [][NextNordic]_vars

(* getWeatherData called on its own *)

InitWeather ==
    /\ retries = DefaultRetries
    /\ pc = "none"
    /\ webhook = FALSE
    /\ store = NoFile
    /\ InitCommon

NextWeather ==
    \/ getWeatherData
    \/ DnsResolves
    \/ DnsFails
    \/ \E l \in Locations :
          \E c \in CallsOf(l) : FnResolves(c) \/ FnRejects(c) \/ TimerFires(c)
    \/ OrphanSettles
    \/ PointReturns
    \/ ForecastsReturn
    \/ LocationCatches

SpecWeather == InitWeather /\ [][NextWeather]_vars

(* getMetroparkConditions called on its own *)

InitMetro ==
    /\ retries = DefaultRetries
    /\ pc = "none"
    /\ webhook = FALSE
    /\ store = NoFile
    /\ InitCommon

NextMetro ==
    \/ getMetroparkConditions
    \/ \E p \in Parks :
          \/ FnResolves(ParkCall(p))
          \/ FnRejects(ParkCall(p))
          \/ TimerFires(ParkCall(p))
          \/ ParkResumes(p)
          \/ ParkCatches(p)
    \/ MetroReturns

SpecMetro == InitMetro /\ [][NextMetro]_vars

(* A run of main, with data/conditions.json absent or left by an earlier run *)

Init ==
    /\ retries = DefaultRetries
    /\ pc = "start"
    /\ webhook = FALSE
    /\ store \in {NoFile, FirstFile}
    /\ InitCommon

Next ==
    \/ main
    \/ \E c \in CallIds : FnResolves(c) \/ FnRejects(c) \/ TimerFires(c)
    \/ OrphanSettles
    \/ getWeatherData
    \/ DnsResolves
    \/ DnsFails
    \/ PointReturns
    \/ ForecastsReturn
    \/ LocationCatches
    \/ WeatherReturned
    \/ getMetroparkConditions
    \/ \E p \in Parks : ParkResumes(p) \/ ParkCatches(p)
    \/ MetroReturns
    \/ MetroReturned
    \/ getNordicSkiRacerConditions
    \/ \E r \in Regions : RegionResumes(r) \/ RegionHeader(r) \/ RegionCatches(r)
    \/ NordicReturns
    \/ NordicReturned
    \/ getNubsNobConditions
    \/ NubsReturns
    \/ NubsThrows
    \/ NubsReturned
    \/ OtherWriterCommits
    \/ ReadReturns
    \/ ReadThrows
    \/ WriteAccepted
    \/ WriteRejected
    \/ MainReturns
    \/ MainCatches
    \/ AlertSettles
    \/ Exits

Spec == Init /\ [][Next]_vars


(* A run of main in which every request is answered or fails in the end, every
   timer fires and every callback that is ready runs; other writers need not
   ever commit.  The four callbacks that parse a response are named apart:
   their fairness is weak fairness written out, []<>~ENABLED \/ []<><<A>>_vars,
   with the guard of the action for ENABLED. *)

RunStep ==
    \/ main
    \/ \E c \in CallIds : FnResolves(c) \/ FnRejects(c) \/ TimerFires(c)
    \/ OrphanSettles
    \/ getWeatherData \/ DnsResolves \/ DnsFails
    \/ PointReturns \/ LocationCatches \/ WeatherReturned
    \/ getMetroparkConditions
    \/ \E p \in Parks : ParkCatches(p)
    \/ MetroReturns \/ MetroReturned
    \/ getNordicSkiRacerConditions
    \/ \E r \in Regions : RegionResumes(r) \/ RegionCatches(r)
    \/ NordicReturns \/ NordicReturned
    \/ getNubsNobConditions \/ NubsThrows \/ NubsReturned
    \/ ReadReturns \/ ReadThrows \/ WriteAccepted \/ WriteRejected
    \/ MainReturns \/ MainCatches \/ AlertSettles \/ Exits

ForecastsReady == Running /\ EventLoopFree /\ wpc = "both" /\ ForecastsFulfil

ParkReady(p) ==
    /\ Running /\ EventLoopFree
    /\ mh[p] = "fetching"
    /\ call[ParkCall(p)].st = "ok" /\ call[ParkCall(p)].ret > 0

HeaderReady(r) == Running /\ rh[r] = "processing"

NubsReady ==
    /\ Running /\ EventLoopFree
    /\ kpc = "fetching"
    /\ call[NubsCall].st = "ok" /\ call[NubsCall].ret > 0

ParsingRuns ==
    /\ []<>(~ForecastsReady) \/ []<><<ForecastsReturn>>_vars
    /\ \A p \in Parks : []<>(~ParkReady(p)) \/ []<><<ParkResumes(p)>>_vars
    /\ \A r \in Regions : []<>(~HeaderReady(r)) \/ []<><<RegionHeader(r)>>_vars
    /\ []<>(~NubsReady) \/ []<><<NubsReturns>>_vars

FairSpec == Init /\ [][Next]_vars /\ WF_vars(RunStep) /\ ParsingRuns
----------------------------------------------------------------------------
(* Claims about the retry executor (specification SpecRetry) *)

AllFailed(log) == \A k \in 1..Len(log) : ~log[k]

FirstSuccess(log) ==
    IF \E k \in 1..Len(log) : log[k]
    THEN CHOOSE k \in 1..Len(log) : log[k] /\ \A j \in 1..(k - 1) : ~log[j]
    ELSE 0

\* C1: when fn fails on every attempt it is invoked exactly `retries` times and
\* the error of the last invocation is thrown; when fn first succeeds on its
\* k-th invocation it is invoked exactly k times and that invocation's result
\* is returned.  fn is never invoked more than `retries` times, and the call
\* is in flight or waiting for its delay as long as neither has happened.
RetryContract ==
    LET r == call[NubsCall]
        k == FirstSuccess(r.log)
    IN  /\ Len(r.log) <= retries
        /\ (k > 0) => (r.st = "ok" /\ Len(r.log) = k /\ r.ret = k)
        /\ (AllFailed(r.log) /\ Len(r.log) = retries)
              => (r.st = "err" /\ r.ret = retries)
        /\ (r.st # "idle" /\ AllFailed(r.log) /\ Len(r.log) < retries)
              => r.st \in {"pending", "waiting"}

\* fn failed on each of the three default attempts and the third error was thrown.
RetryExhaustedWitness ==
    /\ retries = DefaultRetries
    /\ call[NubsCall].st = "err"
    /\ call[NubsCall].log = <<FALSE, FALSE, FALSE>>

\* C16: the delays awaited between attempts start at 1000 ms and double; the
\* attempt after the i-th failure is in flight only once i delays are over,
\* and no delay follows the last failed attempt, after which the error is
\* thrown at once.
BackoffDoubles ==
    LET r == call[NubsCall]
    IN  /\ Len(r.waits) > 0 => r.waits[1] = 1000
        /\ \A k \in 1..(Len(r.waits) - 1) : r.waits[k + 1] = 2 * r.waits[k]
        /\ r.st = "pending" => Len(r.waits) = Len(r.log)
        /\ r.st = "waiting" => Len(r.waits) = Len(r.log) - 1 /\ Len(r.log) < retries
        /\ r.st = "ok" => Len(r.waits) = Len(r.log) - 1
        /\ r.st = "err" => Len(r.log) = retries /\ Len(r.waits) = retries - 1

\* Four attempts failed: three delays were awaited, none after the fourth.
BackoffWitness ==
    /\ retries = 4
    /\ call[NubsCall].st = "err"
    /\ call[NubsCall].waits = <<1000, 2000, 4000>>

----------------------------------------------------------------------------
(* Claims about getNordicSkiRacerConditions (specification SpecNordic) *)

HeaderParts(h) == split(trim(h.text), <<":">>)

\* The header is a report of a monitored location
IsReport(h) == Len(HeaderParts(h)) >= 2 /\ IsRelevant(trim(HeaderParts(h)[2]))

KeyOf(h) == trim(HeaderParts(h)[2])

DateTextOf(h) == trim(HeaderParts(h)[1])

DateOf(h) == parseDateFromHeader(DateTextOf(h))

\* What the returned map holds for a report that won
EntryOf(h) == [lastUpdated |-> DateTextOf(h), conditions |-> trim(h.p)]

\* The reports of location key `key` in the responses received: <<region, position>>
ReportsOf(key) ==
    {x \in Regions \X (1..MaxHeaders + 1) :
        /\ x[2] <= Len(page[x[1]])
        /\ IsReport(page[x[1]][x[2]])
        /\ KeyOf(page[x[1]][x[2]]) = key}

AllKeys ==
    {KeyOf(page[r][k]) : <<r, k>> \in
        {x \in Regions \X (1..MaxHeaders + 1) :
            x[2] <= Len(page[x[1]]) /\ IsReport(page[x[1]][x[2]])}}

Hdr(x) == page[x[1]][x[2]]

\* C5: when the reports of one location key all carry parsed dates and one of
\* them is strictly the latest (in particular: two regions report the key with
\* two parsed, different dates), the returned entry of that key is that latest
\* report, whichever region was processed first.
LatestReportWins ==
    npc = "returned" =>
        \A key \in AllKeys :
            \A m \in ReportsOf(key) :
                (/\ \A x \in ReportsOf(key) : DateOf(Hdr(x)).k = "date"
                 /\ \A x \in ReportsOf(key) \ {m} : DateOf(Hdr(m)).t > DateOf(Hdr(x)).t)
                => (key \in DOMAIN conditions /\ conditions[key] = EntryOf(Hdr(m)))

\* Region 11 reported "Mon, Jan 13" and region 13 "Tue, Jan 14" for the same
\* key, and the returned entry is region 13's.
LatestReportWinsWitness ==
    /\ npc = "returned"
    /\ Len(page[11]) = 1 /\ Len(page[13]) = 1
    /\ IsReport(page[11][1]) /\ IsReport(page[13][1])
    /\ KeyOf(page[11][1]) = KeyOf(page[13][1])
    /\ DateTextOf(page[11][1]) = dMonJan13
    /\ DateTextOf(page[13][1]) = dTueJan14
    /\ conditions[lNubsXC] = [lastUpdated |-> dTueJan14, conditions |-> <<"b", "1">>]

\* C6: while the handlers run, an entry of `conditions` is never removed, and
\* it is replaced only by a report whose date parsed, over an entry whose date
\* parsed, the new date being strictly later; with an unparsed date on either
\* side, or equal dates, the entry stays as it is.
ReplacedOnlyByLater ==
    [][(npc = "awaitAll" /\ npc' = "awaitAll") =>
        \A key \in DOMAIN conditions :
            /\ key \in DOMAIN conditions'
            /\ conditions'[key] # conditions[key] =>
                  /\ conditions[key].date.k = "date"
                  /\ conditions'[key].date.k = "date"
                  /\ conditions'[key].date.t > conditions[key].date.t]_vars

\* A report with a parsed date has just been processed against an entry whose
\* date did not parse, and the entry is still the other report's.
KeptOverUnparsedWitness ==
    \E r \in Regions :
        /\ npc = "awaitAll" /\ hidx[r] >= 1
        /\ IsReport(page[r][hidx[r]])
        /\ DateOf(page[r][hidx[r]]).k = "date"
        /\ KeyOf(page[r][hidx[r]]) \in DOMAIN conditions
        /\ conditions[KeyOf(page[r][hidx[r]])].date.k = "null"
        /\ conditions[KeyOf(page[r][hidx[r]])].conditions # trim(page[r][hidx[r]].p)

RECURSIVE MergePage(_, _)
MergePage(conds, headers) ==
    IF headers = <<>> THEN conds
    ELSE MergePage(ProcessHeader(conds, Head(headers)), Tail(headers))

FailedRegions == {r \in Regions : rh[r] = "failed"}

NoDateInOutput ==
    npc = "returned" =>
        \A key \in DOMAIN conditions :
            DOMAIN conditions[key] = {"lastUpdated", "conditions"}

\* Region 13 failed, and in the page of region 11 the second report replaced
\* the first: the returned entry is the second one, without its date.
NoDateWitness ==
    /\ npc = "returned"
    /\ rh[13] = "failed"
    /\ Len(page[11]) >= 2
    /\ IsReport(page[11][1]) /\ KeyOf(page[11][1]) = lNubsXC
    /\ IsReport(page[11][2]) /\ KeyOf(page[11][2]) = lNubsXC
    /\ lNubsXC \in DOMAIN conditions
    /\ conditions[lNubsXC] = EntryOf(page[11][2])

----------------------------------------------------------------------------
(* Claims about getWeatherData (specification SpecWeather) *)

\* A fetch of location l failed for good while the adapter awaited it
FailedLocation(l) == CallsOf(l) \cap failedCalls # {}

\* C7: after a successful DNS check the adapter returns one entry per
\* configured location, whichever locations had a fetch fail for good: the
\* entry of a failed location is the single placeholder period "Unavailable"
\* with null temp and null snowfall, the entry of every other location is the
\* forecast made from the periods it was answered.
WeatherFailureIsolated ==
    (wpc = "returned" /\ dns = "ok") =>
        /\ DOMAIN weatherData = Locations
        /\ \A l \in Locations :
              IF FailedLocation(l)
              THEN /\ weatherData[l].name = LocationName(l)
                   /\ Len(weatherData[l].forecast) = 1
                   /\ weatherData[l].forecast[1].name = "Unavailable"
                   /\ weatherData[l].forecast[1].temp = Null
                   /\ weatherData[l].forecast[1].snowfall = Null
              ELSE /\ wpayload[l] # <<>>
                   /\ weatherData[l] = RealEntry(l, wpayload[l])

\* The fetches of Nubs Nob failed, those of the two other locations did not.
WeatherFailureWitness ==
    /\ wpc = "returned" /\ dns = "ok"
    /\ FailedLocation("nubsNob")
    /\ ~FailedLocation("shelbyTownship") /\ ~FailedLocation("otsegoResort")
    /\ weatherData["nubsNob"].forecast[1].name = "Unavailable"
    /\ weatherData["otsegoResort"].forecast[1].name = "Tonight"

\* C19: a location has its real forecast only when none of its three fetches
\* failed: when the hourly fetch failed for good the entry is the placeholder,
\* also when the general forecast had been answered with its periods.
HourlyFailureDiscardsForecast ==
    (wpc = "returned" /\ dns = "ok") =>
        \A l \in Locations :
            /\ weatherData[l].forecast[1].name # "Unavailable"
                  => CallsOf(l) \cap failedCalls = {}
            /\ HourlyCall(l) \in failedCalls
                  => weatherData[l] = Placeholder(l)

\* Only the hourly fetch of Shelby Township failed, its general forecast was
\* answered with periods, and its entry is the placeholder.
HourlyFailureWitness ==
    /\ wpc = "returned" /\ dns = "ok"
    /\ CallsOf("shelbyTownship") \cap failedCalls = {HourlyCall("shelbyTownship")}
    /\ wpayload["shelbyTownship"] = SnowyNight
    /\ weatherData["shelbyTownship"] = Placeholder("shelbyTownship")

----------------------------------------------------------------------------
(* Claims about getMetroparkConditions (specification SpecMetro) *)

\* C8: when the fetch of a park failed for good the adapter still returns, the
\* park has an entry with empty sections and an error field, and every park
\* whose fetch succeeded has the entry extracted from its own page.
ParkFailureIsolated ==
    /\ (mpc = "awaitAll" /\ \A p \in Parks : mh[p] \in {"done", "failed"})
          => ENABLED MetroReturns
    /\ mpc = "returned" =>
          \A p \in Parks :
              /\ p \in DOMAIN mconds
              /\ IF ParkCall(p) \in failedCalls
                 THEN /\ mconds[p].sections = <<>>
                      /\ "error" \in DOMAIN mconds[p]
                 ELSE /\ mh[p] = "done"
                      /\ mconds[p] = ExtractPark(p, mpage[p])

\* Huron Meadows failed, Stony Creek answered and kept its section.
ParkFailureWitness ==
    /\ mpc = "returned"
    /\ ParkCall("HuronMeadowsMetropark") \in failedCalls
    /\ "error" \in DOMAIN mconds["HuronMeadowsMetropark"]
    /\ ParkCall("StonyCreekMetropark") \notin failedCalls
    /\ Len(mconds["StonyCreekMetropark"].sections) = 1

----------------------------------------------------------------------------
(* Claims about a run of main (specification Spec) *)

\* C2: the write carries no marker when the file was absent when the read was
\* answered, and exactly the file's marker when it existed then, whatever the
\* read was answered with.
WriteCarriesMarkerOfRead ==
    writeReq.issued =>
        IF storeAtRead.exists
        THEN writeReq.marked /\ writeReq.sha = storeAtRead.sha
        ELSE ~writeReq.marked

\* C3: the publisher is entered, and a write sent, only after all four
\* adapters returned; in a run in which an adapter threw nothing is sent and
\* the file keeps the blob it had when the run started.
NoWriteAfterThrow ==
    /\ (ppc # "idle" \/ writeReq.issued) =>
          wpc = "returned" /\ mpc = "returned" /\ npc = "returned" /\ kpc = "returned"
    /\ kpc = "threw" =>
          ppc = "idle" /\ ~writeReq.issued /\ store.sha = 0 /\ commits = 0

\* getNubsNobConditions threw and the process exited without a request.
NoWriteAfterThrowWitness ==
    /\ pc = "exited"
    /\ kpc = "threw"
    /\ wpc = "returned" /\ mpc = "returned" /\ npc = "returned"
    /\ ~writeReq.issued

\* C4: the document handed to the publisher, and the content of the write,
\* hold the timestamp and the four sections, whichever isolated failures
\* happened.
DocumentComplete ==
    /\ ppc # "idle" => DOMAIN data = DocumentKeys
    /\ writeReq.issued => DOMAIN writeReq.content = DocumentKeys

\* The write was sent after the DNS check, both parks and both regions failed.
DocumentCompleteWitness ==
    /\ writeReq.issued
    /\ dns = "failed"
    /\ writeReq.content["weather"] = <<>>
    /\ \A p \in Parks : "error" \in DOMAIN writeReq.content["metroparkConditions"][p]
    /\ \A r \in Regions : RegionCall(r) \in failedCalls
    /\ writeReq.content["nordicConditions"] = <<>>

\* C10: once the fetch of the resort page has failed for good the adapter
\* throws, main leaves the literal for its catch, and nothing is published:
\* no section, no call of the publisher, no request.
NubsFailureAborts ==
    NubsCall \in failedCalls =>
        /\ kpc \in {"fetching", "threw"}
        /\ (kpc = "threw" /\ pc = "nubs") => ENABLED MainCatches
        /\ pc \in {"nubs", "notifying", "notified", "exited"}
        /\ "nubsNob" \notin DOMAIN data
        /\ ppc = "idle" /\ ~writeReq.issued /\ store.sha = 0 /\ commits = 0

\* The three other adapters returned data without a failure, the resort page
\* failed, and the process exited.
NubsFailureWitness ==
    /\ pc = "exited"
    /\ NubsCall \in failedCalls
    /\ DOMAIN data = DocumentKeys \ {"nubsNob"}
    /\ DOMAIN data["weather"] = Locations
    /\ \A l \in Locations : data["weather"][l] = RealEntry(l, SnowyNight)
    /\ \A p \in Parks : "error" \notin DOMAIN data["metroparkConditions"][p]
    /\ lNubsXC \in DOMAIN data["nordicConditions"]

\* C11: the process ends with status 0 only when the four adapters returned
\* and the publish succeeded; after a throw of an adapter or of the publish
\* the status is never 0, and at process.exit(1) the alert has settled: sent,
\* failed, or skipped because no webhook is configured.
ExitStatusContract ==
    /\ ExitStatus = 0 =>
          /\ wpc = "returned" /\ mpc = "returned" /\ npc = "returned" /\ kpc = "returned"
          /\ ppc = "returned"
    /\ (kpc = "threw" \/ ppc = "threw") => ExitStatus # 0
    /\ pc = "exited" =>
          /\ ExitStatus = 1
          /\ kpc = "threw" \/ ppc = "threw"
          /\ alert \in {"sent", "failed", "skipped"}
          /\ (alert = "skipped") = ~webhook

\* The publish threw, the post to the webhook failed, and the process exited.
ExitStatusWitness ==
    /\ pc = "exited"
    /\ ppc = "threw"
    /\ webhook /\ alert = "failed"

\* C12: an error reaches a catch (of an adapter, of updateGitHubData or of
\* main) only after `retries` attempts of the request that failed: a call of
\* fetchWithRetry that threw made `retries` invocations, and a publish that
\* threw sent its write `retries` times.
ErrorsOnlyAfterRetries ==
    /\ \A c \in CallIds : call[c].st = "err" => Len(call[c].log) = retries
    /\ ppc = "threw" => pubAttempts.write = retries

\* C13: after a failed DNS check getWeatherData has returned the empty map
\* and no fetch of any location was started or is in flight; main takes the
\* empty map as the weather section and goes on to the next adapter.
DnsFailureShortCircuits ==
    dns = "failed" =>
        /\ wpc = "returned"
        /\ \A l \in Locations : \A c \in CallsOf(l) :
              call[c] = Idle /\ c \notin failedCalls
        /\ ~orphans
        /\ pc \in {"weather", "none"} => weatherData = <<>>
        /\ pc = "weather" => ENABLED WeatherReturned
        /\ "weather" \in DOMAIN data => data["weather"] = <<>>
        /\ (pc = "metro" /\ mpc = "idle") => ENABLED getMetroparkConditions

\* The DNS check failed and the run still published its document.
DnsFailureWitness ==
    /\ dns = "failed"
    /\ pc = "done" /\ ppc = "returned"
    /\ writeReq.content["weather"] = <<>>
    /\ DOMAIN writeReq.content["metroparkConditions"] = Parks

\* The allowlist name relevantLocations.find returns for a location segment
\* (0 when none matches)
MatchedName(locationSection) ==
    LET hits == {k \in 1..Len(relevantLocations) :
                    includes(toLowerCase(locationSection),
                             toLowerCase(relevantLocations[k]))}
    IN  IF hits = {} THEN 0 ELSE CHOOSE k \in hits : \A j \in hits : k <= j

\* C14: the returned map holds at most one entry per allowlist name: two keys
\* of the map never match the same name of relevantLocations.
OneEntryPerAllowlistName ==
    npc = "returned" =>
        \A k1, k2 \in DOMAIN conditions :
            MatchedName(k1) = MatchedName(k2) => k1 = k2

\* C15: while a region handler is in its h4 loop no other handler and no
\* other callback takes a step: every step is the next header of that same
\* handler, whose read-compare-write on `conditions` is one step, and the
\* other handler stays where it is, suspended at its fetch or finished.
HeaderLoopNotInterleaved ==
    [][ \A r \in Regions :
          rh[r] = "processing" =>
              /\ hidx'[r] = hidx[r] + 1
              /\ conditions' = ProcessHeader(conditions, page[r][hidx[r] + 1])
              /\ call' = call
              /\ \A q \in Regions \ {r} :
                    /\ rh[q] \in {"fetching", "done", "failed"}
                    /\ rh'[q] = rh[q] /\ hidx'[q] = hidx[q] /\ page'[q] = page[q]
      ]_vars

\* Region 11 is between two headers of its page while the response of region
\* 13 has already arrived and waits for its turn.
HeaderLoopWitness ==
    /\ rh[11] = "processing" /\ hidx[11] = 1
    /\ DOMAIN conditions # {}
    /\ rh[13] = "fetching" /\ call[RegionCall(13)].st = "ok"

\* The run is over: main returned after the publish, or process.exit(1)
Finished == pc \in {"done", "exited"}

\* C18: when every request is answered or fails in the end, the run ends, by
\* the return of main after the publish or by process.exit(1); on the way no
\* call of fetchWithRetry invokes its fn more than `retries` times and the
\* publisher sends one read and one write at most.
RunTerminates ==
    /\ [](/\ \A c \in CallIds : Len(call[c].log) <= retries
          /\ pubAttempts.read <= 1 /\ pubAttempts.write <= 1)
    /\ <>Finished

\* The run ended by the return of main: a park and a region had used up their
\* attempts on the way, and the publisher sent one read and one write.
RunTerminatesWitness ==
    /\ pc = "done"
    /\ ParkCall("StonyCreekMetropark") \in failedCalls
    /\ RegionCall(11) \in failedCalls
    /\ pubAttempts = [read |-> 1, write |-> 1]
    /\ ~orphans

=============================================================================
